---- MODULE Spec2Model ----
(***************************************************************************)
(* vm-starter (src/main.go): obtain one ARM bearer token, list the         *)
(* subscriptions, list the virtual machines of each subscription, stamp    *)
(* each VM with its resource group and POST a start action per VM.         *)
(*                                                                         *)
(* Text is modelled as a sequence of lexical tokens (a Str).  The token    *)
(* "/" is the path separator; every other token stands for a fixed piece   *)
(* of text that holds no "/" (a word such as "resourceGroups", a name, a   *)
(* literal of a format string).  Concatenation is \o, so fmt.Sprintf is    *)
(* the concatenation of the format's literals and its arguments, and       *)
(* strings.Index is a search for a contiguous sub-sequence.                *)
(***************************************************************************)
EXTENDS Integers, Sequences, FiniteSets, TLC

VARIABLES
    pc,          \* position of main: "token", "listSubs", "subLoop", "vmLoop", "exit"
    exitCode,    \* process exit status, meaningful when pc = "exit" (-1 while running)
    token,       \* main.token (line 85); <<>> until acquired
    tokenCalls,  \* number of calls of getAzureAccessToken
    subs,        \* subsResp.Value, as the sequence of subscription ids
    si,          \* index of the outer range loop (line 110), 1-based
    vms,         \* vms.Value of the current subscription (line 128)
    vi,          \* index of the start loop (line 138), 1-based
    trace,       \* everything observable, in order: requests sent and lines printed
    vmResults,   \* per subscription already listed: what its VM-list call returned
                 \* (ok, vms) and where in the trace its loop iteration begins (at)
    rid,         \* input of the parseResourceGroup harness
    rgOut,       \* output of the parseResourceGroup harness
    parsed       \* whether the harness has called parseResourceGroup

vars == <<pc, exitCode, token, tokenCalls, subs, si, vms, vi, trace, vmResults,
          rid, rgOut, parsed>>

mainVars == <<pc, exitCode, token, tokenCalls, subs, si, vms, vi, trace, vmResults>>
rgVars == <<rid, rgOut, parsed>>

----------------------------------------------------------------------------
(* Bounds of the model *)

\* most items the responses of one run hold: the entries of the subscription
\* list plus the descriptors of all VM lists together
MaxWork == 4
\* longest resource identifier (in tokens) given to the parseResourceGroup harness
MaxIdLen == 7

----------------------------------------------------------------------------
(* Constants of the program *)

StatusOK == 200
StatusAccepted == 202

subscriptionAPI == <<"2022-12-01">>
vmAPI == <<"2025-04-01">>

MethodGet == "GET"
MethodPost == "POST"

----------------------------------------------------------------------------
(* Strings *)

\* whether sep occurs in s at 0-based offset i
OccursAt(s, sep, i) ==
    /\ i >= 0
    /\ i + Len(sep) <= Len(s)
    /\ SubSeq(s, i + 1, i + Len(sep)) = sep

\* strings.Index: 0-based offset of the first occurrence of sep in s, or -1
Index(s, sep) ==
    LET hits == {i \in 0..Len(s) : OccursAt(s, sep, i)}
    IN  IF hits = {} THEN -1
        ELSE CHOOSE i \in hits : \A j \in hits : i <= j

\* strings.LastIndex, used only by a faulty variant
LastIndex(s, sep) ==
    LET hits == {i \in 0..Len(s) : OccursAt(s, sep, i)}
    IN  IF hits = {} THEN -1
        ELSE CHOOSE i \in hits : \A j \in hits : j <= i

Contains(s, sep) == \E i \in 0..(Len(s) - Len(sep)) : OccursAt(s, sep, i)

StartsWith(s, prefix) ==
    Len(prefix) <= Len(s) /\ SubSeq(s, 1, Len(prefix)) = prefix

EndsWith(s, suffix) ==
    Len(suffix) <= Len(s) /\ SubSeq(s, Len(s) - Len(suffix) + 1, Len(s)) = suffix

\* Go's s[from:] with a 0-based offset
SliceFrom(s, from) == SubSeq(s, from + 1, Len(s))

\* Go's s[:to] with a 0-based offset
SliceTo(s, to) == SubSeq(s, 1, to)

Digit == <<"0", "1", "2", "3", "4", "5", "6", "7", "8", "9">>

\* the %d verb of fmt on a non-negative integer, one token per digit
RECURSIVE Itoa(_)
Itoa(n) ==
    IF n < 10 THEN <<Digit[n + 1]>>
    ELSE Itoa(n \div 10) \o <<Digit[(n % 10) + 1]>>

----------------------------------------------------------------------------
(* parseResourceGroup *)

rgMarker == <<"/", "resourceGroups", "/">>

\* faulty variant: searches the last marker instead of the first
parseResourceGroupLast(resourceID) ==
    LET rgIdx == LastIndex(resourceID, rgMarker)
    IN  IF rgIdx = -1 THEN <<>>
        ELSE LET sub == SliceFrom(resourceID, rgIdx + Len(rgMarker))
                 endIdx == Index(sub, <<"/">>)
             IN  IF endIdx = -1 THEN sub ELSE SliceTo(sub, endIdx)

parseResourceGroup(resourceID) ==
    LET rgIdx == Index(resourceID, rgMarker)
    IN  IF rgIdx = -1 THEN <<>>
        ELSE LET sub == SliceFrom(resourceID, rgIdx + Len(rgMarker))
                 endIdx == Index(sub, <<"/">>)
             IN  IF endIdx = -1 THEN sub ELSE SliceTo(sub, endIdx)

----------------------------------------------------------------------------
(* What the environment can answer *)

\* bearer tokens the credential provider may hand out
Tokens == {<<"tokA">>, <<"tokB">>}

\* subscription ids a subscription list may hold
SubIds == {<<"sub-1">>, <<"sub-2">>}

\* HTTP status codes a response may carry: the two the program compares with,
\* each of them the unexpected status where the other is expected
Statuses == {StatusOK, StatusAccepted}

\* VM descriptors as json.Decode leaves them.  ResourceGroup has no json tag, so
\* it is empty unless the body holds a key that matches the field's name (the
\* second descriptor); its id spells the marker in lower case.
VmPool ==
    { [ID |-> <<"/", "subscriptions", "/", "sub-1", "/", "resourceGroups", "/",
                "rg-a", "/", "providers", "/", "vm1">>,
       Name |-> <<"vm1">>, ResourceGroup |-> <<>>],
      [ID |-> <<"/", "resourcegroups", "/", "rg-c", "/", "vm2">>,
       Name |-> <<"vm2">>, ResourceGroup |-> <<"rg-c">>] }

SeqsUpTo(S, n) == UNION {[1..k -> S] : k \in 0..n}

RECURSIVE SumLen(_)
SumLen(rs) ==
    IF rs = <<>> THEN 0 ELSE Len(Head(rs).vms) + SumLen(Tail(rs))

\* the text of a non-nil error value under %v; the program never looks into it
ErrText == <<"<error>">>

----------------------------------------------------------------------------
(* sendRequest, the URLs and the lines printed *)

\* faulty variant: the Authorization header carries no token
SendRequestNoToken(method, url, tok, resp) ==
    [kind |-> "req", tag |-> method, text |-> url, auth |-> <<"Bearer ">>,
     status |-> resp.status, body |-> resp.body]

\* one call of sendRequest together with what came back: status 0 stands for a
\* non-nil error (either error return of sendRequest), body tells whether a
\* 200 body decodes
SendRequest(method, url, tok, resp) ==
    [kind |-> "req", tag |-> method, text |-> url, auth |-> <<"Bearer ">> \o tok,
     status |-> resp.status, body |-> resp.body]

TransportError == [status |-> 0, body |-> "none"]
StatusOnly(s) == [status |-> s, body |-> "none"]
BadJSON == [status |-> StatusOK, body |-> "malformed"]
GoodJSON == [status |-> StatusOK, body |-> "ok"]

\* one line written by fmt.Printf (INF, DBG) or fmt.Fprintf(os.Stderr, ...) (ERR)
Line(level, text) ==
    [kind |-> "log", tag |-> level, text |-> text, auth |-> <<>>,
     status |-> 0, body |-> "none"]

subscriptionURL ==
    <<"https:", "/", "/", "management.azure.com", "/", "subscriptions",
      "?api-version=">> \o subscriptionAPI

vmURL(subscriptionID) ==
    <<"https:", "/", "/", "management.azure.com", "/", "subscriptions", "/">>
    \o subscriptionID
    \o <<"/", "providers", "/", "Microsoft.Compute", "/", "virtualMachines",
         "?api-version=">>
    \o vmAPI

startURL(subscriptionID, resourceGroup, name) ==
    <<"https:", "/", "/", "management.azure.com", "/", "subscriptions", "/">>
    \o subscriptionID
    \o <<"/", "resourceGroups", "/">>
    \o resourceGroup
    \o <<"/", "providers", "/", "Microsoft.Compute", "/", "virtualMachines", "/">>
    \o name
    \o <<"/", "start", "?api-version=">>
    \o vmAPI

\* the four fields that close the debug line and the status error line
TargetFields(subscriptionID, vm, url) ==
    <<"\n    SubscriptionID: ">> \o subscriptionID
    \o <<"\n    ResourceGroup: ">> \o vm.ResourceGroup
    \o <<"\n    VM Name: ">> \o vm.Name
    \o <<"\n    URL: ">> \o url \o <<"\n">>

DebugLine(subscriptionID, vm, url) ==
    Line("DBG", <<"[DBG]: Sending ", MethodPost, " request to start VM.">>
                \o TargetFields(subscriptionID, vm, url))

StartErrLine(vm) ==
    Line("ERR", <<"[ERR]: Failed to start VM ">> \o vm.Name \o <<": ">>
                \o ErrText \o <<"\n">>)

\* faulty variant: the status error line is as terse as the transport error line
StartStatusLineTerse(subscriptionID, vm, url, status) ==
    Line("ERR", <<"[ERR]: Unexpected status for starting VM ">> \o vm.Name
                \o <<": ">> \o Itoa(status) \o <<"\n">>)

StartStatusLine(subscriptionID, vm, url, status) ==
    Line("ERR", <<"[ERR]: Unexpected status for starting VM ">> \o vm.Name
                \o <<": ">> \o Itoa(status)
                \o TargetFields(subscriptionID, vm, url))

StartAcceptedLine(vm) ==
    Line("INF", <<"[INF]: VM ">> \o vm.Name \o <<" start request accepted\n">>)

ProcessingLine(subscriptionID) ==
    Line("INF", <<"[INF]: Processing subscription ">> \o subscriptionID \o <<"\n">>)

\* faulty variant: every VM gets the resource group of the first VM of the list
StampFirst(list) ==
    [i \in 1..Len(list) |->
        [list[i] EXCEPT !.ResourceGroup = parseResourceGroup(list[1].ID)]]

\* the loop of lines 134-136
StampResourceGroups(list) ==
    [i \in 1..Len(list) |->
        [list[i] EXCEPT !.ResourceGroup = parseResourceGroup(list[i].ID)]]

----------------------------------------------------------------------------
(* main *)

Init ==
    /\ pc = "token"
    /\ exitCode = -1
    /\ token = <<>>
    /\ tokenCalls = 0
    /\ subs = <<>>
    /\ si = 1
    /\ vms = <<>>
    /\ vi = 1
    /\ trace = <<>>
    /\ vmResults = <<>>
    /\ rid = <<>>
    /\ rgOut = <<>>
    /\ parsed = FALSE

\* os.Exit(code)
Exit(code) ==
    /\ pc' = "exit"
    /\ exitCode' = code

\* lines 85-89, err == nil
AcquireTokenOK ==
    /\ pc = "token"
    /\ \E t \in Tokens : token' = t
    /\ tokenCalls' = tokenCalls + 1
    /\ pc' = "listSubs"
    /\ UNCHANGED <<exitCode, subs, si, vms, vi, trace, vmResults>>
    /\ UNCHANGED rgVars

\* lines 85-89, err != nil (from line 43 or from line 49)
AcquireTokenFail ==
    /\ pc = "token"
    /\ tokenCalls' = tokenCalls + 1
    /\ \E cause \in {"failed to create credential: ", "failed to get token: "} :
         trace' = Append(trace,
                    Line("ERR", <<"[ERR]: Failed to get Azure token: ", cause>>
                                \o ErrText \o <<"\n">>))
    /\ Exit(1)
    /\ UNCHANGED <<token, subs, si, vms, vi, vmResults>>
    /\ UNCHANGED rgVars

\* lines 91-96: sendRequest returns an error
ListSubsTransportError ==
    /\ pc = "listSubs"
    /\ trace' = trace \o
         << SendRequest(MethodGet, subscriptionURL, token, TransportError),
            Line("ERR", <<"[ERR]: Failed to fetch subscriptions: ">>
                        \o ErrText \o <<"\n">>) >>
    /\ Exit(1)
    /\ UNCHANGED <<token, tokenCalls, subs, si, vms, vi, vmResults>>
    /\ UNCHANGED rgVars

\* faulty variant: a non-200 subscription list is logged and then decoded anyway
ListSubsBadStatusGoesOn ==
    /\ pc = "listSubs"
    /\ \E s \in Statuses \ {StatusOK}, list \in SeqsUpTo(SubIds, MaxWork) :
         /\ trace' = trace \o
              << SendRequest(MethodGet, subscriptionURL, token, StatusOnly(s)),
                 Line("ERR", <<"[ERR]: Unexpected status for subscriptions: ">>
                             \o Itoa(s) \o <<"\n">>) >>
         /\ subs' = list
    /\ si' = 1
    /\ pc' = "subLoop"
    /\ UNCHANGED <<exitCode, token, tokenCalls, vms, vi, vmResults>>
    /\ UNCHANGED rgVars

\* lines 99-102: the status is not 200
ListSubsBadStatus ==
    /\ pc = "listSubs"
    /\ \E s \in Statuses \ {StatusOK} :
         trace' = trace \o
           << SendRequest(MethodGet, subscriptionURL, token, StatusOnly(s)),
              Line("ERR", <<"[ERR]: Unexpected status for subscriptions: ">>
                          \o Itoa(s) \o <<"\n">>) >>
    /\ Exit(1)
    /\ UNCHANGED <<token, tokenCalls, subs, si, vms, vi, vmResults>>
    /\ UNCHANGED rgVars

\* lines 104-108: the body does not decode
ListSubsBadJSON ==
    /\ pc = "listSubs"
    /\ trace' = trace \o
         << SendRequest(MethodGet, subscriptionURL, token, BadJSON),
            Line("ERR", <<"[ERR]: Failed to parse subscriptions JSON: ">>
                        \o ErrText \o <<"\n">>) >>
    /\ Exit(1)
    /\ UNCHANGED <<token, tokenCalls, subs, si, vms, vi, vmResults>>
    /\ UNCHANGED rgVars

\* lines 91-108 with a 200 response that decodes to a list of subscription ids
ListSubsOK ==
    /\ pc = "listSubs"
    /\ \E list \in SeqsUpTo(SubIds, MaxWork) : subs' = list
    /\ trace' = Append(trace,
                  SendRequest(MethodGet, subscriptionURL, token, GoodJSON))
    /\ si' = 1
    /\ pc' = "subLoop"
    /\ UNCHANGED <<exitCode, token, tokenCalls, vms, vi, vmResults>>
    /\ UNCHANGED rgVars

\* faulty variant: a failed VM-list call leaves the subscription loop (break)
SkipSubscriptionBreaks(events) ==
    /\ trace' = trace \o events
    /\ vmResults' = Append(vmResults, [ok |-> FALSE, vms |-> <<>>, at |-> Len(trace) + 1])
    /\ si' = Len(subs) + 1
    /\ UNCHANGED <<pc, exitCode, token, tokenCalls, subs, vms, vi>>
    /\ UNCHANGED rgVars

\* `continue` of the subscription loop after a failed VM-list call
SkipSubscription(events) ==
    /\ trace' = trace \o events
    /\ vmResults' = Append(vmResults, [ok |-> FALSE, vms |-> <<>>, at |-> Len(trace) + 1])
    /\ si' = si + 1
    /\ UNCHANGED <<pc, exitCode, token, tokenCalls, subs, vms, vi>>
    /\ UNCHANGED rgVars

\* lines 110-120: sendRequest returns an error
ListVMsTransportError ==
    /\ pc = "subLoop"
    /\ si <= Len(subs)
    /\ LET subscriptionID == subs[si]
       IN  SkipSubscription(
             << ProcessingLine(subscriptionID),
                SendRequest(MethodGet, vmURL(subscriptionID), token, TransportError),
                Line("ERR", <<"[ERR]: Failed to fetch VMs for ">> \o subscriptionID
                            \o <<": ">> \o ErrText \o <<"\n">>) >>)

\* faulty variant: the `continue` of line 125 is missing, so a non-200 response
\* is logged and its body decoded and started all the same
ListVMsBadStatusFallsThrough ==
    /\ pc = "subLoop"
    /\ si <= Len(subs)
    /\ \E s \in Statuses \ {StatusOK},
          list \in SeqsUpTo(VmPool, MaxWork - Len(subs) - SumLen(vmResults)) :
         /\ LET subscriptionID == subs[si]
            IN  trace' = trace \o
                  << ProcessingLine(subscriptionID),
                     SendRequest(MethodGet, vmURL(subscriptionID), token, StatusOnly(s)),
                     Line("ERR", <<"[ERR]: Unexpected status for VMs: ">>
                                 \o Itoa(s) \o <<"\n">>) >>
         /\ vms' = StampResourceGroups(list)
    /\ vmResults' = Append(vmResults, [ok |-> FALSE, vms |-> <<>>, at |-> Len(trace) + 1])
    /\ vi' = 1
    /\ pc' = "vmLoop"
    /\ UNCHANGED <<exitCode, token, tokenCalls, subs, si>>
    /\ UNCHANGED rgVars

\* faulty variant: a failed VM-list call ends the run with exit status 1
ListVMsBadStatusExits ==
    /\ pc = "subLoop"
    /\ si <= Len(subs)
    /\ \E s \in Statuses \ {StatusOK} :
         LET subscriptionID == subs[si]
         IN  trace' = trace \o
               << ProcessingLine(subscriptionID),
                  SendRequest(MethodGet, vmURL(subscriptionID), token, StatusOnly(s)),
                  Line("ERR", <<"[ERR]: Unexpected status for VMs: ">>
                              \o Itoa(s) \o <<"\n">>) >>
    /\ vmResults' = Append(vmResults, [ok |-> FALSE, vms |-> <<>>, at |-> Len(trace) + 1])
    /\ Exit(1)
    /\ UNCHANGED <<token, tokenCalls, subs, si, vms, vi>>
    /\ UNCHANGED rgVars

\* lines 110-126: the status is not 200
ListVMsBadStatus ==
    /\ pc = "subLoop"
    /\ si <= Len(subs)
    /\ \E s \in Statuses \ {StatusOK} :
         LET subscriptionID == subs[si]
         IN  SkipSubscription(
               << ProcessingLine(subscriptionID),
                  SendRequest(MethodGet, vmURL(subscriptionID), token, StatusOnly(s)),
                  Line("ERR", <<"[ERR]: Unexpected status for VMs: ">>
                              \o Itoa(s) \o <<"\n">>) >>)

\* lines 110-132: the body does not decode
ListVMsBadJSON ==
    /\ pc = "subLoop"
    /\ si <= Len(subs)
    /\ LET subscriptionID == subs[si]
       IN  SkipSubscription(
             << ProcessingLine(subscriptionID),
                SendRequest(MethodGet, vmURL(subscriptionID), token, BadJSON),
                Line("ERR", <<"[ERR]: Failed to parse VMs JSON: ">>
                            \o ErrText \o <<"\n">>) >>)

\* lines 110-136 with a 200 response that decodes: the list is stamped with the
\* resource groups and the start loop begins
ListVMsOK ==
    /\ pc = "subLoop"
    /\ si <= Len(subs)
    /\ \E list \in SeqsUpTo(VmPool, MaxWork - Len(subs) - SumLen(vmResults)) :
         /\ vmResults' = Append(vmResults, [ok |-> TRUE, vms |-> list, at |-> Len(trace) + 1])
         /\ vms' = StampResourceGroups(list)
    /\ LET subscriptionID == subs[si]
       IN  trace' = trace \o
             << ProcessingLine(subscriptionID),
                SendRequest(MethodGet, vmURL(subscriptionID), token, GoodJSON) >>
    /\ vi' = 1
    /\ pc' = "vmLoop"
    /\ UNCHANGED <<exitCode, token, tokenCalls, subs, si>>
    /\ UNCHANGED rgVars

\* the range loop of line 110 is exhausted: main returns
SubLoopDone ==
    /\ pc = "subLoop"
    /\ si > Len(subs)
    /\ Exit(0)
    /\ UNCHANGED <<token, tokenCalls, subs, si, vms, vi, trace, vmResults>>
    /\ UNCHANGED rgVars

\* faulty variant: the debug line is printed after the request instead of before
StartEventsDebugLast(subscriptionID, vm, url, resp, outcome) ==
    << SendRequest(MethodPost, url, token, resp),
       DebugLine(subscriptionID, vm, url),
       outcome >>

\* what one iteration of the start loop sends and prints, in order
StartEvents(subscriptionID, vm, url, resp, outcome) ==
    << DebugLine(subscriptionID, vm, url),
       SendRequest(MethodPost, url, token, resp),
       outcome >>

\* one iteration of the loop of line 138 ends, by `continue` or at its bottom
NextVM(events) ==
    /\ trace' = trace \o events
    /\ vi' = vi + 1
    /\ UNCHANGED <<pc, exitCode, token, tokenCalls, subs, si, vms, vmResults>>
    /\ UNCHANGED rgVars

\* lines 138-152: sendRequest returns an error
StartVMTransportError ==
    /\ pc = "vmLoop"
    /\ vi <= Len(vms)
    /\ LET subscriptionID == subs[si]
           vm == vms[vi]
           url == startURL(subscriptionID, vm.ResourceGroup, vm.Name)
       IN  NextVM(StartEvents(subscriptionID, vm, url, TransportError,
                              StartErrLine(vm)))

\* faulty variant: a rejected start leaves the start loop (break, not continue)
StartVMBadStatusBreaks ==
    /\ pc = "vmLoop"
    /\ vi <= Len(vms)
    /\ \E s \in Statuses \ {StatusAccepted} :
         LET subscriptionID == subs[si]
             vm == vms[vi]
             url == startURL(subscriptionID, vm.ResourceGroup, vm.Name)
         IN  trace' = trace \o
               StartEvents(subscriptionID, vm, url, StatusOnly(s),
                           StartStatusLine(subscriptionID, vm, url, s))
    /\ vi' = Len(vms) + 1
    /\ UNCHANGED <<pc, exitCode, token, tokenCalls, subs, si, vms, vmResults>>
    /\ UNCHANGED rgVars

\* lines 138-160: the status is not 202
StartVMBadStatus ==
    /\ pc = "vmLoop"
    /\ vi <= Len(vms)
    /\ \E s \in Statuses \ {StatusAccepted} :
         LET subscriptionID == subs[si]
             vm == vms[vi]
             url == startURL(subscriptionID, vm.ResourceGroup, vm.Name)
         IN  NextVM(StartEvents(subscriptionID, vm, url, StatusOnly(s),
                                StartStatusLine(subscriptionID, vm, url, s)))

\* lines 138-161: the start request is accepted
StartVMAccepted ==
    /\ pc = "vmLoop"
    /\ vi <= Len(vms)
    /\ LET subscriptionID == subs[si]
           vm == vms[vi]
           url == startURL(subscriptionID, vm.ResourceGroup, vm.Name)
       IN  NextVM(StartEvents(subscriptionID, vm, url, StatusOnly(StatusAccepted),
                              StartAcceptedLine(vm)))

\* the range loop of line 138 is exhausted: on to the next subscription
VmLoopDone ==
    /\ pc = "vmLoop"
    /\ vi > Len(vms)
    /\ si' = si + 1
    /\ pc' = "subLoop"
    /\ UNCHANGED <<exitCode, token, tokenCalls, subs, vms, vi, trace, vmResults>>
    /\ UNCHANGED rgVars

Next ==
    \/ AcquireTokenOK
    \/ AcquireTokenFail
    \/ ListSubsTransportError
    \/ ListSubsBadStatus
    \/ ListSubsBadJSON
    \/ ListSubsOK
    \/ ListVMsTransportError
    \/ ListVMsBadStatus
    \/ ListVMsBadJSON
    \/ ListVMsOK
    \/ SubLoopDone
    \/ StartVMTransportError
    \/ StartVMBadStatus
    \/ StartVMAccepted
    \/ VmLoopDone

Spec == Init /\ [][Next]_vars

----------------------------------------------------------------------------
(* A harness for parseResourceGroup: any resource identifier of at most        *)
(* MaxIdLen tokens over the separator, the marker's word and one other word.   *)

IdAlphabet == {"/", "resourceGroups", "a"}

InitRG ==
    /\ pc = "exit"
    /\ exitCode = 0
    /\ token = <<>>
    /\ tokenCalls = 0
    /\ subs = <<>>
    /\ si = 1
    /\ vms = <<>>
    /\ vi = 1
    /\ trace = <<>>
    /\ vmResults = <<>>
    /\ rid \in SeqsUpTo(IdAlphabet, MaxIdLen)
    /\ rgOut = <<>>
    /\ parsed = FALSE

CallParseResourceGroup ==
    /\ ~parsed
    /\ rgOut' = parseResourceGroup(rid)
    /\ parsed' = TRUE
    /\ UNCHANGED rid
    /\ UNCHANGED mainVars

NextRG == CallParseResourceGroup

SpecRG == InitRG /\ [][NextRG]_vars

----------------------------------------------------------------------------
(* Reading the trace *)

IsReq(e) == e.kind = "req"
IsSubsGet(e) == IsReq(e) /\ e.tag = MethodGet /\ e.text = subscriptionURL
IsVmListGet(e) == IsReq(e) /\ e.tag = MethodGet /\ e.text # subscriptionURL
IsStart(e) == IsReq(e) /\ e.tag = MethodPost
IsFailedStart(e) == IsStart(e) /\ e.status # StatusAccepted

Requests == SelectSeq(trace, IsReq)
VmListGets == SelectSeq(trace, IsVmListGet)
Starts == SelectSeq(trace, IsStart)
Texts(es) == [i \in 1..Len(es) |-> es[i].text]

\* the subscription list was fetched and decoded
SubsDecoded ==
    /\ Requests # <<>>
    /\ Requests[1].status = StatusOK
    /\ Requests[1].body = "ok"

\* getAzureAccessToken was called and returned an error
TokenFailed == tokenCalls >= 1 /\ token = <<>>

\* what the i-th iteration of the subscription loop sent and printed
Segment(i) ==
    SubSeq(trace, vmResults[i].at,
           IF i < Len(vmResults) THEN vmResults[i + 1].at - 1 ELSE Len(trace))

\* the start POSTs of the i-th subscription entry, in order
StartsOf(i) == SelectSeq(Segment(i), IsStart)

\* the descriptor the start POST at position p of the i-th segment is for: the
\* j-th of the list when the POST is the j-th of the segment
VmOf(i, seg, p) == vmResults[i].vms[Len(SelectSeq(SubSeq(seg, 1, p), IsStart))]

\* the i-th subscription entry is behind the loop
Finished(i) == i < si

\* the URL the program is to POST for descriptor d of subscription sub
ExpectedStartURL(sub, d) == startURL(sub, parseResourceGroup(d.ID), d.Name)

RECURSIVE Flatten(_)
Flatten(ss) == IF ss = <<>> THEN <<>> ELSE Head(ss) \o Flatten(Tail(ss))

----------------------------------------------------------------------------
(* Properties *)

\* C1: once the subscription list has decoded to N ids, the VM-list GETs are
\* those of the first entries of the list, one per entry and in list order, a
\* failed VM-list call or a failed start moves on to the next entry, and when
\* the run has ended there are exactly N of them.
C1_OneVmListPerSubscription ==
    /\ Len(VmListGets) <= Len(subs)
    /\ \A i \in 1..Len(VmListGets) : VmListGets[i].text = vmURL(subs[i])
    /\ (pc = "subLoop" => Len(VmListGets) = si - 1)
    /\ (pc = "vmLoop" => Len(VmListGets) = si)
    /\ (pc = "exit" /\ SubsDecoded => Len(VmListGets) = Len(subs))
    /\ Len(vmResults) = Len(VmListGets)
    /\ \A i \in 1..Len(vmResults) :
         Len(SelectSeq(Segment(i), IsVmListGet)) = 1

\* C1 witness: a finished run over two subscriptions whose first VM-list call
\* failed and in which a start failed as well
C1_Witness ==
    /\ pc = "exit"
    /\ Len(subs) = 2
    /\ Len(VmListGets) = 2
    /\ ~vmResults[1].ok
    /\ \E k \in 1..Len(trace) : IsFailedStart(trace[k])

\* C2: a VM list that came back 200 and decoded to M descriptors gets exactly M
\* start POSTs, the j-th for the j-th descriptor, to the URL made of the
\* subscription's id, that descriptor's name and the resource group parsed from
\* that descriptor's own id; the stamped list is not touched by the start loop.
C2_OneStartPerDescriptor ==
    /\ \A i \in 1..Len(vmResults) :
         vmResults[i].ok =>
           LET posts == StartsOf(i)
               list == vmResults[i].vms
           IN  /\ Len(posts) <= Len(list)
               /\ (Finished(i) => Len(posts) = Len(list))
               /\ \A j \in 1..Len(posts) :
                    posts[j].text = ExpectedStartURL(subs[i], list[j])
    /\ (pc = "vmLoop" =>
          /\ Len(vms) = Len(vmResults[si].vms)
          /\ \A j \in 1..Len(vms) :
               /\ vms[j].ID = vmResults[si].vms[j].ID
               /\ vms[j].Name = vmResults[si].vms[j].Name
               /\ vms[j].ResourceGroup = parseResourceGroup(vms[j].ID))

\* C2 witness: a finished subscription with two descriptors of different resource
\* groups, both posted although the first start failed
C2_Witness ==
    \E i \in 1..Len(vmResults) :
       /\ Finished(i)
       /\ vmResults[i].ok
       /\ Len(vmResults[i].vms) = 2
       /\ parseResourceGroup(vmResults[i].vms[1].ID)
            # parseResourceGroup(vmResults[i].vms[2].ID)
       /\ Len(StartsOf(i)) = 2
       /\ StartsOf(i)[1].status # StatusAccepted

\* C3: a subscription-list response with a status other than 200 ends the run
\* with a non-zero exit status, and the subscription-list GET stays the only
\* request of the run (no VM-list GET, no start POST).
C3_BadSubscriptionStatusIsFatal ==
    (\E k \in 1..Len(trace) :
        IsSubsGet(trace[k]) /\ trace[k].status \notin {0, StatusOK})
    => /\ pc = "exit"
       /\ exitCode # 0
       /\ Len(Requests) = 1
       /\ VmListGets = <<>>
       /\ Starts = <<>>

\* C3 witness: the run has ended on a 202 answer to the subscription-list GET
C3_Witness ==
    /\ pc = "exit"
    /\ Requests # <<>>
    /\ IsSubsGet(Requests[1])
    /\ Requests[1].status = StatusAccepted

\* the requests one subscription entry is to cause, given only its own id and
\* what its own VM-list call returned
ExpectedRequestsOf(sub, result) ==
    <<vmURL(sub)>>
    \o (IF result.ok
        THEN [j \in 1..Len(result.vms) |-> ExpectedStartURL(sub, result.vms[j])]
        ELSE <<>>)

\* C4: a subscription whose VM-list call failed (error, non-200 status or a body
\* that does not decode) gets no start POST, and the requests of a finished run
\* are, entry by entry, what each entry's own VM-list response calls for: its
\* VM-list GET and, if that decoded, its starts, whatever happened to the others.
C4_FailedVmListSkipsOnlyThatSubscription ==
    /\ \A i \in 1..Len(vmResults) : ~vmResults[i].ok => StartsOf(i) = <<>>
    /\ \A i \in 1..Len(vmResults) :
         LET gets == SelectSeq(Segment(i), IsVmListGet)
         IN  /\ Len(gets) = 1
             /\ (vmResults[i].ok <=>
                   gets[1].status = StatusOK /\ gets[1].body = "ok")
    /\ (pc = "exit" /\ SubsDecoded =>
          /\ Len(vmResults) = Len(subs)
          /\ Texts(Tail(Requests)) =
               Flatten([i \in 1..Len(subs) |->
                          ExpectedRequestsOf(subs[i], vmResults[i])]))

\* C4 witness: a finished run whose first entry failed on the status of its
\* VM-list response and whose second entry still had its VM started
C4_Witness ==
    /\ pc = "exit"
    /\ Len(subs) = 2
    /\ Len(vmResults) = 2
    /\ ~vmResults[1].ok
    /\ VmListGets[1].status = StatusAccepted
    /\ vmResults[2].ok
    /\ Len(StartsOf(2)) >= 1


\* C5: a start that fails (a status other than 202, or an error) is followed at
\* once by an error line naming that VM, the start loop goes on to the next
\* descriptor (after j starts, failed or not, the loop stands at descriptor
\* j + 1), and a run in which a start failed still walks every subscription and
\* ends with exit status 0.
C5_FailedStartDoesNotAbort ==
    /\ \A i \in 1..Len(vmResults) :
         LET seg == Segment(i)
         IN  \A p \in 1..Len(seg) :
                IsFailedStart(seg[p]) =>
                  /\ p < Len(seg)
                  /\ seg[p + 1].kind = "log"
                  /\ seg[p + 1].tag = "ERR"
                  /\ \/ StartsWith(seg[p + 1].text,
                                   <<"[ERR]: Failed to start VM ">>
                                   \o VmOf(i, seg, p).Name)
                     \/ StartsWith(seg[p + 1].text,
                                   <<"[ERR]: Unexpected status for starting VM ">>
                                   \o VmOf(i, seg, p).Name)
    /\ (pc = "vmLoop" => Len(StartsOf(si)) = vi - 1)
    /\ \A i \in 1..Len(vmResults) :
         Finished(i) /\ vmResults[i].ok => Len(StartsOf(i)) = Len(vmResults[i].vms)
    /\ (pc = "exit" /\ (\E k \in 1..Len(trace) : IsFailedStart(trace[k])) =>
          /\ exitCode = 0
          /\ si = Len(subs) + 1
          /\ Len(VmListGets) = Len(subs))

\* C5 witness: in one subscription the first start was refused with a status and
\* the second was still sent
C5_Witness ==
    \E i \in 1..Len(vmResults) :
       /\ Len(StartsOf(i)) = 2
       /\ StartsOf(i)[1].status \notin {0, StatusAccepted}

\* a failure of the outermost stage: no token, or a subscription list that could
\* not be fetched (error or non-200) or decoded
OuterFailure ==
    \/ TokenFailed
    \/ /\ Requests # <<>>
       /\ IsSubsGet(Requests[1])
       /\ (Requests[1].status # StatusOK \/ Requests[1].body # "ok")

\* C7: when the process has ended its exit status is non-zero exactly if the
\* outermost stage failed, and 0 otherwise, however many VM-list calls and
\* starts failed.
C7_ExitCode ==
    pc = "exit" =>
      /\ (exitCode # 0 <=> OuterFailure)
      /\ (~OuterFailure => exitCode = 0)
      /\ (exitCode # 0 => VmListGets = <<>> /\ Starts = <<>>)

\* C7 witness: exit status 0 after a VM-list call failed on an error and a start
\* failed on an error
C7_Witness ==
    /\ pc = "exit"
    /\ exitCode = 0
    /\ \E k \in 1..Len(trace) : IsVmListGet(trace[k]) /\ trace[k].status = 0
    /\ \E k \in 1..Len(trace) : IsStart(trace[k]) /\ trace[k].status = 0

\* C8: getAzureAccessToken is called at most once, every request of the run was
\* sent after that one call and carries the token it returned (the one main
\* still holds) as its bearer credential, and a run whose token call failed has
\* ended with a non-zero exit status and has sent no request.
C8_OneTokenForEveryRequest ==
    /\ tokenCalls <= 1
    /\ \A k \in 1..Len(trace) :
         IsReq(trace[k]) =>
           /\ tokenCalls = 1
           /\ token \in Tokens
           /\ trace[k].auth = <<"Bearer ">> \o token
    /\ (pc # "token" => tokenCalls = 1)
    /\ (TokenFailed => pc = "exit" /\ exitCode # 0 /\ Requests = <<>>)

\* C8 witness: a finished run that sent all three kinds of request
C8_Witness ==
    /\ pc = "exit"
    /\ \E k \in 1..Len(trace) : IsSubsGet(trace[k])
    /\ Len(VmListGets) = 2
    /\ Len(Starts) = 2

\* C9, as claimed: after every failed start, by status or by error, the error
\* line holds the start URL, the subscription id, the resource group and the VM
\* name.
C9_AsClaimed ==
    \A i \in 1..Len(vmResults) :
       LET seg == Segment(i)
       IN  \A p \in 1..Len(seg) :
              IsFailedStart(seg[p]) =>
                /\ p < Len(seg)
                /\ seg[p + 1].tag = "ERR"
                /\ Contains(seg[p + 1].text, seg[p].text)
                /\ Contains(seg[p + 1].text, subs[i])
                /\ Contains(seg[p + 1].text, parseResourceGroup(VmOf(i, seg, p).ID))
                /\ Contains(seg[p + 1].text, VmOf(i, seg, p).Name)

\* C9, amended: after a start refused with a status other than 202 the error
\* line is the VM name, the status, and the labelled subscription id, resource
\* group, VM name and start URL; after a start that failed with an error the
\* error line is the VM name and the error's text and nothing else.
C9_ErrorLineFields ==
    \A i \in 1..Len(vmResults) :
       LET seg == Segment(i)
       IN  \A p \in 1..Len(seg) :
              IsFailedStart(seg[p]) =>
                /\ p < Len(seg)
                /\ seg[p + 1].kind = "log"
                /\ seg[p + 1].tag = "ERR"
                /\ (seg[p].status # 0 =>
                      LET text == seg[p + 1].text
                          vm == VmOf(i, seg, p)
                      IN  text =
                            <<"[ERR]: Unexpected status for starting VM ">>
                            \o vm.Name \o <<": ">> \o Itoa(seg[p].status)
                            \o <<"\n    SubscriptionID: ">> \o subs[i]
                            \o <<"\n    ResourceGroup: ">> \o parseResourceGroup(vm.ID)
                            \o <<"\n    VM Name: ">> \o vm.Name
                            \o <<"\n    URL: ">> \o seg[p].text \o <<"\n">>)
                /\ (seg[p].status = 0 =>
                      seg[p + 1].text =
                        <<"[ERR]: Failed to start VM ">> \o VmOf(i, seg, p).Name
                        \o <<": ">> \o ErrText \o <<"\n">>)

\* C9 witness: one start has failed with an error and another with a status
C9_Witness ==
    /\ \E k \in 1..Len(trace) : IsStart(trace[k]) /\ trace[k].status = 0
    /\ \E k \in 1..Len(trace) : IsFailedStart(trace[k]) /\ trace[k].status # 0

IsDebugLine(e) == e.kind = "log" /\ e.tag = "DBG"
IsStartInfoLine(e) ==
    e.kind = "log" /\ e.tag = "INF" /\ e.text[1] = "[INF]: VM "
IsStartErrorLine(e) ==
    /\ e.kind = "log"
    /\ e.tag = "ERR"
    /\ e.text[1] \in {"[ERR]: Failed to start VM ",
                      "[ERR]: Unexpected status for starting VM "}

Count(Test(_)) == Len(SelectSeq(trace, Test))

\* C10: every start POST has a debug line ending in its URL right before it and one
\* outcome line right after it, informational exactly if the status is 202 and
\* an error line otherwise; so there are as many debug lines as starts, and as
\* many starts as informational plus error start lines.
C10_DebugAndOutcomePerStart ==
    /\ \A k \in 1..Len(trace) :
         IsStart(trace[k]) =>
           /\ k > 1
           /\ IsDebugLine(trace[k - 1])
           /\ EndsWith(trace[k - 1].text,
                       <<"\n    URL: ">> \o trace[k].text \o <<"\n">>)
           /\ k < Len(trace)
           /\ (IsStartInfoLine(trace[k + 1]) \/ IsStartErrorLine(trace[k + 1]))
           /\ (IsStartInfoLine(trace[k + 1]) <=> trace[k].status = StatusAccepted)
    /\ Count(IsDebugLine) = Count(IsStart)
    /\ Count(IsStart) = Count(IsStartInfoLine) + Count(IsStartErrorLine)

\* C10 witness: a finished run with an accepted start, a refused start (status
\* 200) and hence two debug lines
C10_Witness ==
    /\ pc = "exit"
    /\ \E k \in 1..Len(trace) : IsStart(trace[k]) /\ trace[k].status = StatusAccepted
    /\ \E k \in 1..Len(trace) : IsStart(trace[k]) /\ trace[k].status = StatusOK
    /\ Count(IsDebugLine) = 2

----------------------------------------------------------------------------
(* Properties of parseResourceGroup, under SpecRG *)

NoSeparator(s) == \A k \in 1..Len(s) : s[k] # "/"

\* the names n for which s holds a segment /resourceGroups/n/
SegmentNames(s) ==
    { SubSeq(s, i + Len(rgMarker) + 1, k - 1) :
        <<i, k>> \in { p \in (0..Len(s)) \X (1..Len(s)) :
                         /\ OccursAt(s, rgMarker, p[1])
                         /\ p[2] > p[1] + Len(rgMarker)
                         /\ s[p[2]] = "/"
                         /\ NoSeparator(SubSeq(s, p[1] + Len(rgMarker) + 1, p[2] - 1)) } }

HasMarker(s) == \E i \in 0..Len(s) : OccursAt(s, rgMarker, i)

\* the names n such that the first /resourceGroups/ of s is followed by n/
FirstSegmentNames(s) ==
    { SubSeq(s, i + Len(rgMarker) + 1, k - 1) :
        <<i, k>> \in { p \in (0..Len(s)) \X (1..Len(s)) :
                         /\ OccursAt(s, rgMarker, p[1])
                         /\ \A h \in 0..(p[1] - 1) : ~OccursAt(s, rgMarker, h)
                         /\ p[2] > p[1] + Len(rgMarker)
                         /\ s[p[2]] = "/"
                         /\ NoSeparator(SubSeq(s, p[1] + Len(rgMarker) + 1, p[2] - 1)) } }

\* C6, as claimed: for an identifier holding a segment /resourceGroups/<name>/
\* the result is <name>, and for one without the marker it is empty.
C6_AsClaimed ==
    parsed =>
      /\ \A name \in SegmentNames(rid) : rgOut = name
      /\ (~HasMarker(rid) => rgOut = <<>>)

\* C6, amended: for an identifier whose first /resourceGroups/ is followed by
\* <name>/ the result is <name>, and for one without the marker it is empty.
C6_FirstSegment ==
    parsed =>
      /\ \A name \in FirstSegmentNames(rid) : rgOut = name
      /\ (~HasMarker(rid) => rgOut = <<>>)

\* C6 witness: an identifier with two different resource-group segments has been
\* parsed, and the result is the first one's name
C6_Witness ==
    /\ parsed
    /\ Cardinality(SegmentNames(rid)) >= 2
    /\ rgOut \in FirstSegmentNames(rid)

====
